---------------------------- MODULE Spec2Model ----------------------------
(***************************************************************************)
(* A model of the notification hub of Trillius/watchman:                   *)
(*   - the feed poller      NewsCog        (src/cogs/news.py)              *)
(*   - the resource monitor MonitoringCog  (src/bot/cogs/monitoring.py)    *)
(*   - the ingress bridge   FastAPI app    (src/api/server.py) and the     *)
(*     handlers it calls    APIEventsCog   (src/bot/cogs/api_events.py)    *)
(*                                                                         *)
(* The bot runs on one asyncio event loop: the code between two awaits is  *)
(* one atomic step, so every action below runs from the return of one      *)
(* await to the start of the next.                                         *)
(*                                                                         *)
(* Time is in seconds; `now` is datetime.now().  Variables marked "history"*)
(* record what the program did (what was handed to the sink, in which      *)
(* order ids were inserted); the program itself never reads them.          *)
(***************************************************************************)
EXTENDS Integers, Sequences, FiniteSets, TLC

VARIABLES
    now,              \* datetime.now()
    news_channel_id,  \* settings.news_channel_id: "unset" or "set"
    posted_stories,   \* NewsCog.posted_stories (SeenEntrySet)
    last_check,       \* NewsCog.last_check (the cutoff)
    poll,             \* per execution of fetch_and_post_news: its locals, and
                      \* (history) fetched: what each fetch returned; sent:
                      \* the stories it sent, in order; seen0, cutoff0:
                      \* posted_stories and last_check when its loop began
    cycles,           \* number of executions of fetch_and_post_news started
    send_ok,          \* history: outcome of the channel.send that has just
                      \* returned (TRUE when none has)
    sends,            \* history: number of sends per story id (saturates at 2)
    insertion_order,  \* history: the ids of posted_stories, oldest insert first
    prev_cycle_sent,  \* history: ids sent by the previous fetching cycle
    last_cycle,       \* history: how the last ended cycle ended
    dropped,          \* history: the ids of the entries that a cycle left
                      \* unsent at its cap and that were not newer than the
                      \* cutoff it recorded at its end
    status_channel_id,\* settings.status_channel_id: "unset" or "set"
    last_alert_time,  \* MonitoringCog.last_alert_time (AlertCooldownTable)
    mon,              \* the execution of check_system_health: its locals, and
                      \* (history) sampled_at: when it sampled; started: when
                      \* the send in flight began;
                      \* decided: for each alert it has handled, whether it
                      \* was sent and how long after the sends before it;
                      \* fault: it ended by raising; prev_fault: the
                      \* execution before it did; failed: the resource
                      \* whose psutil call raised; samples: what the calls
                      \* before it had returned
    mon_cycles,       \* number of executions of check_system_health started
    last_done,        \* history: per (type, severity), when its last send returned
    alert_ok,         \* history: outcome of the last send_alert that returned in
                      \* the current monitor cycle (TRUE when none has)
    probe,            \* a sample of the three resources and the alerts built
                      \* from it (the classification of lines 61-85 on its own)
    discord_bot,      \* server.discord_bot: "none", or the bot, "not_ready" or
                      \* "ready" (bot.is_ready())
    api_cog,          \* whether bot.get_cog("APIEventsCog") finds the cog
    api,              \* per worker of the server that has received a request:
                      \* the request it handles (or handled last), its
                      \* position, the message it handed to channel.send and
                      \* its response (0: none yet); history: unavailable,
                      \* what lines 80-86 found; found, what bot.get_channel
                      \* found; dispatch, how the handler ended; calls, the
                      \* number of channel.send calls the request made
    requests,         \* number of requests received
    loops,            \* per periodic task (tasks.loop): "unloaded" (no task
                      \* yet), "waiting" (in before_loop), "running",
                      \* "cancelled" or "stopped"
    cogs,             \* per periodic task, its cog (history): loads and
                      \* unloads, the cog_load and cog_unload calls; raised,
                      \* whether a cog_load raised; live, the loop tasks
                      \* created by start() and not ended
    news_query,       \* the execution of the /news command (get_latest_news):
                      \* asked, the count argument; its locals; history:
                      \* shown, the stories it sent to the interaction, in
                      \* order; outcome, how it ended
    sys_query,        \* the execution of the /status or /health command:
                      \* which of the two, the samples it took and when
    queries           \* number of slash commands started

newsVars == <<news_channel_id, posted_stories, last_check, poll, cycles,
              send_ok, sends, insertion_order, prev_cycle_sent, last_cycle,
              dropped>>

monVars == <<status_channel_id, last_alert_time, mon, mon_cycles, last_done, alert_ok>>

apiVars == <<discord_bot, api_cog, api, requests>>

cmdVars == <<news_query, sys_query, queries>>

vars == <<now, newsVars, monVars, probe, apiVars, loops, cogs, cmdVars>>

----------------------------------------------------------------------------
(* Bounds of the model *)

StartTime == 7200      \* the clock value at construction
MaxTime == 9000        \* the clock stops advancing here
MaxCycles == 3         \* executions of fetch_and_post_news per behaviour
MaxMonCycles == 3      \* executions of check_system_health per behaviour
ProbeMargin == 2       \* how far around the thresholds the samples are tried
MaxRequests == 2       \* requests received by the server per behaviour
MaxQueries == 2        \* slash commands started per behaviour
BridgeCycles == 2      \* cycles of each periodic task beside the bridge
MaxLoads == 2          \* cog_load calls per cog per behaviour

(* Program constants *)

Hour == 3600                   \* timedelta(hours=1)
max_posts_per_check == 5       \* the per-cycle cap
\* The eviction threshold and the number of ids kept are 1000 and 500 in the
\* source; the model scales them to 6 and 3 so that a behaviour of a few
\* cycles crosses the threshold.
SeenHighWater == 6
SeenKeep == 3

alert_cooldown == 300          \* self.alert_cooldown
DatetimeMin == 0               \* datetime.min
TitleLimit == 256              \* title[:256]
DescriptionLimit == 4096       \* [:4096]

NewsSteps == {1800}            \* clock steps of the news specification
LateSteps == {900}             \* clock steps while the sources publish
\* The instants of the monitor specification: the clock jumps from one to any
\* later one, which gives the gaps 1, 60, 240, 241, 300 and 301.
MonTimes == {StartTime, StartTime + 1, StartTime + 241, StartTime + 301}

Pollers == {"news_checker", "test_news_fetch"}
Tasks == {"news_checker", "system_monitor"}

----------------------------------------------------------------------------
(* Feed entries.  published is the entry's published_parsed as seconds;    *)
(* has_published is FALSE when the entry has no published_parsed key.      *)

Story(id, pub) ==
    [has_id |-> TRUE, id |-> id, link |-> "", has_published |-> TRUE, published |-> pub]

LinkStory(link, pub) ==
    [has_id |-> FALSE, id |-> "", link |-> link, has_published |-> TRUE, published |-> pub]

UndatedStory(id) ==
    [has_id |-> TRUE, id |-> id, link |-> "", has_published |-> FALSE, published |-> 0]

\* Publication times: three inside the hour before construction, the initial
\* cutoff itself, and two that stay ahead of the local clock (published_parsed
\* is UTC, datetime.now() is naive local time; a feed may also post-date).
T1 == StartTime - 600
T2 == StartTime - 1200
T3 == StartTime - 1800
Stale == StartTime - Hour
F1 == MaxTime + Hour
F2 == MaxTime + 2 * Hour

\* settings.news_rss_feeds is a str; the loop of fetch_and_post_news iterates
\* over it, so it fetches once per element of the string.
news_rss_feeds == <<"a", "b">>

\* str.split(sep): the pieces of a string between the separators.
RECURSIVE SplitFrom(_, _, _)
SplitFrom(str, sep, piece) ==
    IF str = <<>> THEN <<piece>>
    ELSE IF Head(str) = sep
         THEN <<piece>> \o SplitFrom(Tail(str), sep, <<>>)
         ELSE SplitFrom(Tail(str), sep, Append(piece, Head(str)))

Split(str, sep) == SplitFrom(str, sep, <<>>)

\* str.strip(): leading and trailing whitespace removed.
RECURSIVE Strip(_)
Strip(str) ==
    IF str = <<>> THEN str
    ELSE IF Head(str) = " " THEN Strip(Tail(str))
    ELSE IF str[Len(str)] = " " THEN Strip(SubSeq(str, 1, Len(str) - 1))
    ELSE str

\* if feed.strip()
NonEmpty(str) == Strip(str) # <<>>

\* [feed.strip() for feed in self.news_rss_feeds.split(',') if feed.strip()]
get_news_feeds_list(setting) ==
    LET pieces == SelectSeq(Split(setting, ","), NonEmpty)
    IN  [i \in 1..Len(pieces) |-> Strip(pieces[i])]

\* What each fetched document holds, newest-first order not assumed.
FeedContent ==
    << << Story("id1", T3), Story("id2", T1), Story("id3", T2), Story("id4", F1),
          UndatedStory("id8") >>,
       << Story("id5", F1), Story("id6", F2), LinkStory("link7", F2),
          Story("id2", T1), Story("id9", Stale) >> >>

Prefixes(s) == { SubSeq(s, 1, n) : n \in 0..Len(s) }

\* fetch_rss_feed: raises, or returns feed.entries (here: a prefix of the
\* document of that source).
FetchResults(i) ==
    { [ok |-> FALSE, entries |-> <<>>] } \cup
    { [ok |-> TRUE, entries |-> e] : e \in Prefixes(FeedContent[i]) }

\* The same with fewer outcomes: the first source is down or returns its
\* whole document, the second source is down.
FewResults(i) ==
    IF i = 1
    THEN { [ok |-> FALSE, entries |-> <<>>], [ok |-> TRUE, entries |-> FeedContent[i]] }
    ELSE { [ok |-> FALSE, entries |-> <<>>] }

\* The same with one outcome: the first source returns the first two entries
\* of its document, the second source is down.
OneResult(i) ==
    IF i = 1
    THEN { [ok |-> TRUE, entries |-> SubSeq(FeedContent[i], 1, 2)] }
    ELSE { [ok |-> FALSE, entries |-> <<>>] }

\* Two sources that publish while the poller runs: each document lists its
\* entries with their publication times, one of them 900 s and one 1800 s
\* after construction.
LateContent ==
    << << Story("id2", T1), Story("id4", StartTime + 900) >>,
       << Story("id9", Stale), Story("id6", StartTime + 1800) >> >>

\* What a source holds at time t: the entries published up to t.
RECURSIVE PublishedBy(_, _)
PublishedBy(doc, t) ==
    IF doc = <<>> THEN <<>>
    ELSE IF Head(doc).published <= t
         THEN <<Head(doc)>> \o PublishedBy(Tail(doc), t)
         ELSE PublishedBy(Tail(doc), t)

\* fetch_rss_feed succeeds and returns what the source holds at the time of
\* the fetch.
LateResult(i) ==
    { [ok |-> TRUE, entries |-> PublishedBy(LateContent[i], now)] }

\* The outcomes of the fetch of source i in the environment env.
Fetches(env, i) ==
    CASE env = "any" -> FetchResults(i)
      [] env = "few" -> FewResults(i)
      [] env = "one" -> OneResult(i)
      [] env = "late" -> LateResult(i)

\* (a failed fetch that discards what the cycle has fetched so far)
MergeOrDiscard(new_stories, r) ==
    IF r.ok THEN new_stories \o r.entries ELSE <<>>

\* try: stories = await self.fetch_rss_feed(feed_url);
\*      new_stories.extend(stories)
\* except Exception as e: logger.error(...)
MergeFetched(new_stories, r) ==
    IF r.ok THEN new_stories \o r.entries ELSE new_stories

\* (a task loop without the try/except: a fault that leaves the coroutine of
\* a tasks.loop stops the loop)
LoopStopsOnFault(task) == "stopped"

\* try: await self.fetch_and_post_news() (self.check_system_health())
\* except Exception as e: logger.error(...): the loop goes on.
LoopAfterFault(task) == "running"

\* A cog that was never loaded, and a cog after the one cog_load of
\* setup_hook, which started its loop.
NoCog == [loads |-> 0, unloads |-> 0, raised |-> FALSE, live |-> 0]
LoadedCog == [loads |-> 1, unloads |-> 0, raised |-> FALSE, live |-> 1]

\* story.get('id', story.get('link', ''))
story_id(s) == IF s.has_id THEN s.id ELSE s.link

AllStories == UNION { { FeedContent[i][j] : j \in 1..Len(FeedContent[i]) } : i \in 1..Len(FeedContent) }
AllStoryIds == { story_id(s) : s \in AllStories }

\* key=lambda x: x.get('published_parsed', (0,)): a struct_time starts with a
\* year >= 1, so (0,) is below every struct_time.
SortKey(s) == IF s.has_published THEN s.published ELSE 0

RECURSIVE InsertDescending(_, _)
InsertDescending(sorted, s) ==
    IF sorted = <<>> THEN <<s>>
    ELSE IF SortKey(Head(sorted)) >= SortKey(s)
         THEN <<Head(sorted)>> \o InsertDescending(Tail(sorted), s)
         ELSE <<s>> \o sorted

\* (a sort that leaves the fetched order)
SortUnstable(stories) == stories

\* new_stories.sort(key=..., reverse=True): stable, descending.
RECURSIVE SortStories(_)
SortStories(stories) ==
    IF stories = <<>> THEN <<>>
    ELSE InsertDescending(SortStories(SubSeq(stories, 1, Len(stories) - 1)),
                          stories[Len(stories)])

\* datetime(*story.get('published_parsed', (0,0,0,0,0,0))[:6]) raises
\* ValueError for the default (year 0 is out of range).
StoryDateRaises(s) == ~s.has_published
story_date(s) == s.published

\* (a loop without the staleness filter)
IsStaleNever(s, cutoff) == FALSE

\* if story_date <= self.last_check: continue
IsStale(s, cutoff) == story_date(s) <= cutoff

\* (the cap tested one iteration late)
CapReachedOffByOne(count) == count > max_posts_per_check

\* if posted_count >= max_posts_per_check: break
CapReached(count) == count >= max_posts_per_check

\* The for loop of fetch_and_post_news from position i up to its next await
\* (post_story), its end, or the exception it raises.
RECURSIVE NextStop(_, _, _, _, _)
NextStop(stories, i, count, posted, cutoff) ==
    IF i > Len(stories) THEN [kind |-> "end", at |-> i]
    ELSE IF CapReached(count) THEN [kind |-> "end", at |-> i]
    ELSE IF story_id(stories[i]) \in posted
         THEN NextStop(stories, i + 1, count, posted, cutoff)
    ELSE IF StoryDateRaises(stories[i]) THEN [kind |-> "raise", at |-> i]
    ELSE IF IsStale(stories[i], cutoff)
         THEN NextStop(stories, i + 1, count, posted, cutoff)
    ELSE [kind |-> "send", at |-> i]

\* set(list(self.posted_stories)[-500:]): a set iterates in hash order, so
\* the last SeenKeep elements of the list are any SeenKeep elements of the set.
EvictResults(posted) == { kept \in SUBSET posted : Cardinality(kept) = SeenKeep }

\* if len(self.posted_stories) > 1000
EvictionDue(posted) == Cardinality(posted) > SeenHighWater

SeqToSet(s) == { s[i] : i \in 1..Len(s) }
SentIds(sent) == { story_id(sent[i]) : i \in 1..Len(sent) }

RECURSIVE FilterSeq(_, _)
FilterSeq(s, keep) ==
    IF s = <<>> THEN <<>>
    ELSE IF Head(s) \in keep THEN <<Head(s)>> \o FilterSeq(Tail(s), keep)
    ELSE FilterSeq(Tail(s), keep)

MostRecent(order, k) ==
    { order[i] : i \in { j \in 1..Len(order) : j > Len(order) - k } }

IdlePoll ==
    [pc |-> "idle", feed_i |-> 1, fetched |-> <<>>, new_stories |-> <<>>, idx |-> 1,
     posted_count |-> 0, sent |-> <<>>, seen0 |-> {}, cutoff0 |-> 0]

NoCycle ==
    [outcome |-> "none", end_time |-> 0, evicted |-> FALSE, kept |-> {}, recent |-> {}]

----------------------------------------------------------------------------
(* The resource monitor *)

ResourceTypes == <<"CPU", "Memory", "Disk">>
Severities == {"warning", "critical"}
AlertKeys == { <<ResourceTypes[i], s>> : i \in 1..3, s \in Severities }

\* The literals of lines 64-84.
WarningThreshold(type) == CASE type = "CPU" -> 80 [] type = "Memory" -> 85 [] type = "Disk" -> 85
CriticalThreshold(type) == CASE type = "CPU" -> 90 [] type = "Memory" -> 95 [] type = "Disk" -> 95

\* The percentages a monitor cycle samples in the model: one below the
\* alerting range, one that gives a warning (not tried for the disk), one
\* that gives a critical alert.
SampleValues(type) ==
    { WarningThreshold(type), CriticalThreshold(type) } \cup
    { WarningThreshold(t) + 1 : t \in {type} \ {"Disk"} }

\* The same with one outcome: CPU and memory at their critical thresholds,
\* the disk below its warning threshold.
FewValues(type) ==
    IF type = "Disk" THEN { WarningThreshold(type) } ELSE { CriticalThreshold(type) }

\* The same with the CPU at its critical threshold and memory and disk below
\* their warning thresholds.
OneValue(type) ==
    IF type = "CPU" THEN { CriticalThreshold(type) } ELSE { WarningThreshold(type) }

\* The percentages a sample of a resource may show in the environment env.
Percentages(env, type) ==
    CASE env = "any" -> SampleValues(type)
      [] env = "few" -> FewValues(type)
      [] env = "one" -> OneValue(type)

\* The percentages the classification is tried on: every whole percentage
\* from ProbeMargin below the warning threshold to ProbeMargin above the
\* critical one.
ProbeValues(type) ==
    (WarningThreshold(type) - ProbeMargin)..(CriticalThreshold(type) + ProbeMargin)

Samples(cpu, memory, disk) ==
    [type \in {"CPU", "Memory", "Disk"} |->
        CASE type = "CPU" -> cpu [] type = "Memory" -> memory [] type = "Disk" -> disk]

\* if cpu_percent > 80 (memory.percent > 85, disk.percent > 85)
Triggered(type, value) == value > WarningThreshold(type)

\* (the critical threshold itself still a warning)
SeverityStrict(type, value) ==
    IF value <= CriticalThreshold(type) THEN "warning" ELSE "critical"

\* "warning" if cpu_percent < 90 else "critical"
Severity(type, value) ==
    IF value < CriticalThreshold(type) THEN "warning" ELSE "critical"

\* Lines 61-85: the alerts list, in the order CPU, Memory, Disk.
RECURSIVE BuildAlerts(_, _)
BuildAlerts(samples, i) ==
    IF i > Len(ResourceTypes) THEN <<>>
    ELSE LET type == ResourceTypes[i]
             rest == BuildAlerts(samples, i + 1)
         IN  IF Triggered(type, samples[type])
             THEN <<[type |-> type, severity |-> Severity(type, samples[type])]>> \o rest
             ELSE rest

\* (a key that ignores the severity)
AlertKeyTypeOnly(alert) == <<alert.type, "warning">>

\* f"{alert['type']}_{alert['severity']}": one string per (type, severity).
alert_key(alert) == <<alert.type, alert.severity>>

\* self.last_alert_time.get(alert_key, datetime.min)
LastAlert(table, key) == IF key \in DOMAIN table THEN table[key] ELSE DatetimeMin

\* (a cooldown that ends at exactly alert_cooldown seconds)
CooldownElapsedInclusive(time, last) == time - last >= alert_cooldown

\* datetime.now() - last_alert > timedelta(seconds=self.alert_cooldown)
CooldownElapsed(time, last) == time - last > alert_cooldown

Put(table, key, value) ==
    [k \in DOMAIN table \cup {key} |-> IF k = key THEN value ELSE table[k]]

Since(table, key) == IF key \in DOMAIN table THEN now - table[key] ELSE -1

\* What is recorded of the handling of one alert: elapsed is the time since
\* the last send for its (type, severity) returned (-1: there was none),
\* other the time since the last send for the other severity of its type
\* returned.
Decision(alert, sent) ==
    [type |-> alert.type, severity |-> alert.severity, sent |-> sent,
     elapsed |-> Since(last_done, <<alert.type, alert.severity>>),
     other |-> Since(last_done, <<alert.type,
                       IF alert.severity = "warning" THEN "critical" ELSE "warning">>)]

\* The for loop of lines 88-94 from position st.idx, reading the cooldown
\* table `table`: up to the next send_alert, or to its end.
RECURSIVE ScanAlerts(_, _)
ScanAlerts(st, table) ==
    IF st.idx > Len(st.alerts) THEN [st EXCEPT !.pc = "idle"]
    ELSE LET alert == st.alerts[st.idx]
         IN  IF CooldownElapsed(now, LastAlert(table, alert_key(alert)))
             THEN [st EXCEPT !.pc = "sending", !.started = now,
                             !.decided = Append(@, Decision(alert, TRUE))]
             ELSE ScanAlerts([st EXCEPT !.idx = @ + 1,
                                        !.decided = Append(@, Decision(alert, FALSE))],
                             table)

\* A resource that was not sampled.
NotSampled == -1

\* Lines 57-59 when the psutil call of `failed` raises: the calls before it
\* (in the order CPU, memory, disk) have returned, the ones after it are
\* not made.
SampledBefore(failed, cpu, memory) ==
    Samples(IF failed = "CPU" THEN NotSampled ELSE cpu,
            IF failed \in {"CPU", "Memory"} THEN NotSampled ELSE memory,
            NotSampled)

IdleMon ==
    [pc |-> "idle", sampled_at |-> 0, alerts |-> <<>>, idx |-> 1, started |-> 0,
     decided |-> <<>>, fault |-> FALSE, prev_fault |-> FALSE, failed |-> "none",
     samples |-> Samples(NotSampled, NotSampled, NotSampled)]

(* MonitoringCog.__init__ *)
InitMon ==
    /\ status_channel_id \in {"unset", "set"}
    /\ last_alert_time = <<>>
    /\ mon = IdleMon
    /\ mon_cycles = 0
    /\ last_done = <<>>
    /\ alert_ok = TRUE


----------------------------------------------------------------------------
(* The ingress bridge.  A text is its content and its length in code       *)
(* points; the empty text stands for both None and "" (the code tests      *)
(* `x or default`).                                                        *)

Workers == {"w1", "w2"}
Endpoints == {"/status", "/event", "/news"}

Text(s, len) == [s |-> s, len |-> len]
NoText == Text("", 0)

\* text[:limit]
Truncate(text, limit) ==
    IF text.len <= limit THEN text ELSE Text(text.s, limit)

\* f"{prefix}{text}"
Prefixed(prefix, text) == Text(prefix.s, prefix.len + text.len)

\* x or default
OrDefault(text, default) == IF text.len > 0 THEN text ELSE default

\* str.upper() and str.lower() on the status and severity words tried.
Upper(word) ==
    CASE word \in {"info", "Info"} -> "INFO"
      [] word \in {"critical", "Critical"} -> "CRITICAL"
      [] word \in {"online", "ONLINE"} -> "ONLINE"
      [] word = "degraded" -> "DEGRADED"
      [] word = "n/a" -> "N/A"
      [] OTHER -> word

Lower(word) ==
    CASE word \in {"info", "Info", "INFO"} -> "info"
      [] word \in {"critical", "Critical", "CRITICAL"} -> "critical"
      [] word \in {"online", "ONLINE"} -> "online"
      [] word \in {"degraded", "DEGRADED"} -> "degraded"
      [] word \in {"n/a", "N/A"} -> "n/a"
      [] OTHER -> word

\* A status or severity word as a text.
Word(word) ==
    Text(word, CASE word \in {"info", "Info"} -> 4
                 [] word \in {"critical", "Critical", "degraded"} -> 8
                 [] word \in {"online", "ONLINE"} -> 6
                 [] word = "n/a" -> 3
                 [] OTHER -> 0)

\* settings.api_secret_key, and the credentials a request may carry
api_secret_key == "change_me"
Credentials == {"change_me", "Change_me"}

\* The request bodies (the pydantic models of server.py lines 19-43; the
\* fields the handlers do not render are left out).
StatusReport(server_name, status, message) ==
    [server_name |-> server_name, status |-> status, message |-> message,
     title |-> NoText, description |-> NoText, severity |-> "", content |-> NoText]

EventReport(title, description, severity) ==
    [server_name |-> NoText, status |-> "", message |-> NoText,
     title |-> title, description |-> description, severity |-> severity,
     content |-> NoText]

NewsUpdate(title, content) ==
    [server_name |-> NoText, status |-> "", message |-> NoText,
     title |-> title, description |-> NoText, severity |-> "", content |-> content]

Bodies(endpoint) ==
    CASE endpoint = "/status" ->
           { StatusReport(Text("web-1", 5), "ONLINE", NoText),
             StatusReport(Text("a long server name", 300), "degraded",
                          Text("a long message", DescriptionLimit + 1)) }
      [] endpoint = "/event" ->
           { EventReport(Text("Deploy finished", 15), NoText, "info"),
             EventReport(Text("a long title", TitleLimit + 1),
                         Text("a long description", DescriptionLimit + 1), "Critical"),
             EventReport(Text("Deploy finished", 15), Text("details", 7), "n/a") }
      [] endpoint = "/news" ->
           { NewsUpdate(Text("a title", TitleLimit), Text("a long content", DescriptionLimit + 1)),
             NewsUpdate(Text("a long title", TitleLimit + 1), Text("content", 7)) }

\* What a request to an endpoint may be: its bearer credential, whether its
\* body passes the validation of its model, its body, and (environment)
\* whether bot.get_channel finds the channel it is routed to.
Arrivals(endpoint) ==
    [credentials |-> Credentials, valid |-> BOOLEAN, body |-> Bodies(endpoint),
     found |-> BOOLEAN]

\* The same with two requests per endpoint: one with a wrong credential, one
\* that is admitted and finds its channel.
FewArrivals(endpoint) ==
    [credentials |-> Credentials, valid |-> {TRUE}, found |-> {TRUE},
     body |-> CASE endpoint = "/status" ->
                     { StatusReport(Text("web-1", 5), "ONLINE", NoText) }
                [] endpoint = "/event" ->
                     { EventReport(Text("Deploy finished", 15), NoText, "info") }
                [] endpoint = "/news" ->
                     { NewsUpdate(Text("a long title", TitleLimit + 1), Text("content", 7)) }]

\* The requests that may come in to an endpoint in the environment env.
ArrivalsOf(env, endpoint) ==
    IF env = "few" THEN FewArrivals(endpoint) ELSE Arrivals(endpoint)

\* (a check that accepts every credential)
VerifyAnyKey(credentials) == credentials \in Credentials

\* if credentials.credentials != settings.api_secret_key: raise 401
\* (TRUE: the request goes on to the handler)
verify_api_key(credentials) == credentials = api_secret_key

\* not discord_bot or not discord_bot.is_ready()
BotNotReady(bot) == bot \in {"none", "not_ready"}

\* The colours of the color_map of handle_status_report / handle_event_report.
StatusColor(status) ==
    CASE Lower(status) = "online" -> "green"
      [] Lower(status) \in {"offline", "error"} -> "red"
      [] Lower(status) = "warning" -> "yellow"
      [] Lower(status) = "degraded" -> "orange"
      [] OTHER -> "gray"

SeverityColor(severity) ==
    CASE Lower(severity) = "info" -> "blue"
      [] Lower(severity) = "warning" -> "yellow"
      [] Lower(severity) = "error" -> "orange"
      [] Lower(severity) = "critical" -> "red"
      [] OTHER -> "gray"

\* (every handler reading settings.status_channel_id)
ChannelRoleStatusOnly(endpoint) == "status"

\* The setting each handler reads its channel id from:
\* settings.status_channel_id in handle_status_report and
\* handle_event_report, settings.news_channel_id in handle_news_update.
ChannelRole(endpoint) == IF endpoint = "/news" THEN "news" ELSE "status"

\* settings.status_channel_id, settings.news_channel_id
ChannelId(role) == IF role = "news" THEN news_channel_id ELSE status_channel_id

\* The embed each handler hands to channel.send: the channel it goes to (the
\* one bot.get_channel returned for the setting the handler read), its
\* title, its description, its colour and the value of its Status or
\* Severity field.
StatusEmbed(body) ==
    [channel |-> ChannelRole("/status"),
     title |-> Prefixed(Text("Server Status: ", 15), body.server_name),
     description |-> OrDefault(body.message,
                               Prefixed(Text("Status changed to ", 18), Word(body.status))),
     color |-> StatusColor(body.status),
     tag |-> Upper(body.status)]

\* (the title taken from the description, the tag from the status)
EventEmbedSwapped(body) ==
    [channel |-> ChannelRole("/event"),
     title |-> OrDefault(body.description, Text("No additional details provided", 30)),
     description |-> body.title,
     color |-> SeverityColor(body.severity),
     tag |-> Upper(body.status)]

EventEmbed(body) ==
    [channel |-> ChannelRole("/event"),
     title |-> body.title,
     description |-> OrDefault(body.description, Text("No additional details provided", 30)),
     color |-> SeverityColor(body.severity),
     tag |-> Upper(body.severity)]

NewsEmbed(body) ==
    [channel |-> ChannelRole("/news"),
     title |-> body.title,
     description |-> Truncate(body.content, DescriptionLimit),
     color |-> "light blue",
     tag |-> ""]

\* The embed the handler of an endpoint builds of a body.
EmbedOf(endpoint, body) ==
    CASE endpoint = "/status" -> StatusEmbed(body)
      [] endpoint = "/event" -> EventEmbed(body)
      [] endpoint = "/news" -> NewsEmbed(body)

NoEmbed == [channel |-> "", title |-> NoText, description |-> NoText, color |-> "", tag |-> ""]

\* (a handler without the two early returns)
HandleAlways(channel_id, found, embed) == [outcome |-> "send", embed |-> embed]

\* handle_status_report, handle_event_report, handle_news_update up to their
\* channel.send: they return at once when the channel of their kind is not
\* configured or not found.
Handle(channel_id, found, embed) ==
    IF channel_id = "unset" THEN [outcome |-> "unconfigured", embed |-> NoEmbed]
    ELSE IF ~found THEN [outcome |-> "not_found", embed |-> NoEmbed]
    ELSE [outcome |-> "send", embed |-> embed]

\* (a handler that lets the failure of channel.send out)
AfterSendPropagating(ok) == IF ok THEN "returned" ELSE "raised"

\* try: await channel.send(embed=embed) / except Exception: logger.error(...)
AfterSend(ok) == "returned"

\* except Exception as e: ... raise HTTPException(status_code=500): it
\* catches every exception raised in the try block, the HTTPException(503)
\* of the block included.
ExceptException(raised) == 500

IdleWorker ==
    [pc |-> "idle", endpoint |-> "", credentials |-> "", valid |-> TRUE,
     body |-> StatusReport(NoText, "", NoText), unavailable |-> FALSE,
     found |-> FALSE, dispatch |-> "none", embed |-> NoEmbed, calls |-> 0,
     response |-> 0]

(* server.py module level / NewsBot.setup_hook *)
InitApi ==
    /\ discord_bot \in {"none", "not_ready", "ready"}
    /\ api_cog \in BOOLEAN
    /\ api = <<>>
    /\ requests = 0

----------------------------------------------------------------------------
(* The slash commands /news (NewsCog.get_latest_news), /status and /health *)
(* (MonitoringCog.get_system_status, MonitoringCog.health_check).          *)

CountMin == 1          \* elif count < 1: count = 1
CountMax == 10         \* if count > 10: count = 10

\* The count arguments tried.
QueryCounts == {-5, 0, 1, 3, 10, 11}

\* (a clamp without the upper limit)
ClampBelowOnly(count) == IF count < CountMin THEN CountMin ELSE count

\* if count > 10: count = 10 / elif count < 1: count = 1
ClampCount(count) ==
    IF count > CountMax THEN CountMax
    ELSE IF count < CountMin THEN CountMin
    ELSE count

\* seq[:n], for n >= 0
Take(seq, n) == SubSeq(seq, 1, IF Len(seq) < n THEN Len(seq) ELSE n)

\* What the two sources hold when the command fetches: the documents of
\* FeedContent with one more entry each, twelve entries in all.
LongContent ==
    << FeedContent[1] \o << Story("id10", T2) >>,
       FeedContent[2] \o << Story("id11", T3) >> >>

\* fetch_rss_feed for the command: raises, or returns no entry, or the whole
\* document.
QueryResults(i) ==
    { [ok |-> FALSE, entries |-> <<>>],
      [ok |-> TRUE, entries |-> <<>>],
      [ok |-> TRUE, entries |-> LongContent[i]] }

IdleQuery ==
    [pc |-> "idle", asked |-> 0, count |-> 0, feed_i |-> 1, stories |-> <<>>,
     idx |-> 1, shown |-> <<>>, outcome |-> "none"]

SysCommands == {"status", "health"}

IdleSys ==
    [pc |-> "idle", command |-> "", samples |-> Samples(NotSampled, NotSampled, NotSampled),
     at |-> 0, outcome |-> "none"]

InitCommands ==
    /\ news_query = IdleQuery
    /\ sys_query = IdleSys
    /\ queries = 0

----------------------------------------------------------------------------
(* NewsCog.__init__ *)
InitNews ==
    /\ news_channel_id \in {"unset", "set"}
    /\ posted_stories = {}
    /\ last_check = now - Hour
    /\ poll = [p \in Pollers |-> IdlePoll]
    /\ cycles = 0
    /\ send_ok = TRUE
    /\ sends = [i \in AllStoryIds |-> 0]
    /\ insertion_order = <<>>
    /\ prev_cycle_sent = {}
    /\ last_cycle = NoCycle
    /\ dropped = {}

Init ==
    /\ now = StartTime
    /\ InitNews
    /\ InitMon
    /\ probe = [samples |-> Samples(0, 0, 0), classified |-> FALSE, alerts |-> <<>>]
    /\ InitApi
    /\ loops = [t \in Tasks |-> "running"]
    /\ cogs = [t \in Tasks |-> LoadedCog]
    /\ InitCommands

\* The feed poller alone (the monitor has no channel and stays idle), and the
\* monitor alone; the server receives no request.
ApiQuiet == discord_bot = "ready" /\ api_cog

InitNewsOnly == Init /\ status_channel_id = "unset" /\ ApiQuiet
InitMonOnly == Init /\ news_channel_id = "unset" /\ ApiQuiet

\* The classification alone, on any sample around the thresholds.
InitClassify ==
    /\ now = StartTime
    /\ InitNews /\ news_channel_id = "unset"
    /\ InitMon /\ status_channel_id = "unset"
    /\ InitApi /\ ApiQuiet
    /\ loops = [t \in Tasks |-> "running"]
    /\ cogs = [t \in Tasks |-> LoadedCog]
    /\ InitCommands
    /\ \E cpu \in ProbeValues("CPU"), memory \in ProbeValues("Memory"),
          disk \in ProbeValues("Disk") :
         probe = [samples |-> Samples(cpu, memory, disk), classified |-> FALSE,
                  alerts |-> <<>>]

\* The clock advances.
Tick(steps) ==
    /\ \E d \in steps : now + d <= MaxTime /\ now' = now + d
    /\ UNCHANGED <<newsVars, monVars, probe, cmdVars, apiVars, loops, cogs>>

\* The ids of the entries that the cycle st leaves unsent when it ends at its
\* cap, although they were unseen and newer than the cutoff when its loop
\* began, and that are not newer than `cutoff`.
LeftBehind(st, cutoff) ==
    IF ~CapReached(st.posted_count) THEN {}
    ELSE { story_id(s) : s \in
             { e \in SeqToSet(st.new_stories) :
                 /\ story_id(e) \notin st.seen0 \cup posted_stories \cup SentIds(st.sent)
                 /\ e.has_published
                 /\ e.published > st.cutoff0
                 /\ e.published <= cutoff } }

\* Lines 95-102: the cutoff is advanced and the seen set is cut.
EndCycle(p, st) ==
    /\ last_check' = now
    /\ dropped' = dropped \cup LeftBehind(st, now)
    /\ poll' = [poll EXCEPT ![p] = [st EXCEPT !.pc = "idle"]]
    /\ IF EvictionDue(posted_stories)
       THEN \E kept \in EvictResults(posted_stories) :
              /\ posted_stories' = kept
              /\ insertion_order' = FilterSeq(insertion_order, kept)
              /\ last_cycle' = [outcome |-> "completed", end_time |-> now,
                                evicted |-> TRUE, kept |-> kept,
                                recent |-> MostRecent(insertion_order, SeenKeep)]
       ELSE /\ UNCHANGED <<posted_stories, insertion_order>>
            /\ last_cycle' = [NoCycle EXCEPT !.outcome = "completed", !.end_time = now]
    /\ UNCHANGED sends

\* Lines 75-102 from loop position st.idx: up to the next channel.send, the
\* end of the cycle, or the ValueError of line 84, which leaves the function:
\* news_checker catches it (lines 37-41); out of test_news_fetch it goes to
\* the command framework.
RunLoop(p, st) ==
    LET stop == NextStop(st.new_stories, st.idx, st.posted_count, posted_stories, last_check)
        s == st.new_stories[stop.at]
    IN  CASE stop.kind = "send" ->
               /\ poll' = [poll EXCEPT ![p] =
                             [st EXCEPT !.pc = "sending", !.idx = stop.at,
                                        !.sent = Append(@, s)]]
               /\ sends' = [sends EXCEPT ![story_id(s)] = IF @ < 2 THEN @ + 1 ELSE @]
               /\ UNCHANGED <<posted_stories, last_check, insertion_order, last_cycle,
                              dropped, loops, cogs>>
          [] stop.kind = "raise" ->
               /\ poll' = [poll EXCEPT ![p] = [st EXCEPT !.pc = "idle", !.idx = stop.at]]
               /\ last_cycle' = [NoCycle EXCEPT !.outcome = "raised", !.end_time = now]
               /\ loops' = IF p = "news_checker"
                           THEN [loops EXCEPT ![p] = LoopAfterFault(p)]
                           ELSE loops
               /\ UNCHANGED cogs
               /\ UNCHANGED <<posted_stories, last_check, insertion_order, sends, dropped>>
          [] stop.kind = "end" -> EndCycle(p, [st EXCEPT !.idx = stop.at]) /\ UNCHANGED <<loops, cogs>>

\* fetch_and_post_news is entered (lines 48-59), by the tick of the
\* news_checker loop or by the testnews command: it returns at once when the
\* news channel is not configured or bot.get_channel finds nothing.
StartCycle(p) ==
    /\ poll[p].pc = "idle"
    /\ p = "news_checker" => loops[p] = "running"
    /\ cycles < MaxCycles
    /\ cycles' = cycles + 1
    /\ \E found \in BOOLEAN :
         IF news_channel_id = "unset" \/ ~found
         THEN /\ last_cycle' = [NoCycle EXCEPT
                                  !.outcome = IF news_channel_id = "unset"
                                              THEN "unconfigured" ELSE "not_found",
                                  !.end_time = now]
              /\ UNCHANGED <<poll, prev_cycle_sent>>
         ELSE /\ poll' = [poll EXCEPT ![p] = [IdlePoll EXCEPT !.pc = "fetching"]]
              /\ prev_cycle_sent' = SentIds(poll[p].sent)
              /\ UNCHANGED last_cycle
    /\ UNCHANGED <<now, news_channel_id, posted_stories, last_check, send_ok,
                   sends, insertion_order, dropped, monVars, probe, cmdVars, apiVars, loops, cogs>>

\* One fetch_rss_feed returns or raises (lines 61-66), with one of the
\* outcomes the environment env gives for that source; after the last one
\* the list is sorted (line 69) and the posting loop runs to its first await.
FetchReturn(p, env) ==
    /\ poll[p].pc = "fetching"
    /\ \E r \in Fetches(env, poll[p].feed_i) :
         LET merged == MergeFetched(poll[p].new_stories, r)
             fetched == Append(poll[p].fetched, r)
         IN  IF poll[p].feed_i < Len(news_rss_feeds)
             THEN /\ poll' = [poll EXCEPT ![p].feed_i = @ + 1,
                                         ![p].fetched = fetched,
                                         ![p].new_stories = merged]
                  /\ UNCHANGED <<posted_stories, last_check, insertion_order,
                                 last_cycle, sends, dropped, loops, cogs>>
             ELSE RunLoop(p, [poll[p] EXCEPT !.new_stories = SortStories(merged),
                                             !.fetched = fetched,
                                             !.idx = 1, !.posted_count = 0,
                                             !.seen0 = posted_stories,
                                             !.cutoff0 = last_check])
    /\ UNCHANGED <<now, news_channel_id, cycles, send_ok, prev_cycle_sent, monVars, probe, cmdVars, apiVars>>

\* post_story returns (lines 139-142 swallow a failed send), then lines 89-93.
SendReturn(p) ==
    /\ poll[p].pc = "sending"
    /\ \E ok \in BOOLEAN : send_ok' = ok
    /\ LET id == story_id(poll[p].new_stories[poll[p].idx])
       IN  /\ posted_stories' = posted_stories \cup {id}
           /\ insertion_order' = IF id \in posted_stories THEN insertion_order
                                 ELSE Append(insertion_order, id)
    /\ poll' = [poll EXCEPT ![p].pc = "sleeping", ![p].posted_count = @ + 1]
    /\ UNCHANGED <<now, news_channel_id, last_check, cycles, sends,
                   prev_cycle_sent, last_cycle, dropped, monVars, probe, cmdVars, apiVars, loops, cogs>>

\* The channel.send of post_story never returns: nothing in post_story or in
\* its callers ends the await.
SendHangs(p) ==
    /\ poll[p].pc = "sending"
    /\ poll' = [poll EXCEPT ![p].pc = "hung"]
    /\ UNCHANGED <<now, news_channel_id, posted_stories, last_check, cycles, send_ok,
                   sends, insertion_order, prev_cycle_sent, last_cycle, dropped,
                   monVars, probe, cmdVars, apiVars, loops, cogs>>

\* asyncio.sleep(1) returns and the loop goes on with the next story.
SleepReturn(p) ==
    /\ poll[p].pc = "sleeping"
    /\ RunLoop(p, [poll[p] EXCEPT !.idx = @ + 1])
    /\ send_ok' = TRUE
    /\ UNCHANGED <<now, news_channel_id, cycles, prev_cycle_sent, monVars, probe, cmdVars, apiVars>>

NextNews ==
    \/ Tick(NewsSteps)
    \/ StartCycle("news_checker")
    \/ FetchReturn("news_checker", "any")
    \/ SendReturn("news_checker")
    \/ SleepReturn("news_checker")

SpecNews == InitNewsOnly /\ [][NextNews]_vars

\* The poller while the sources publish, with every fetch and every send
\* succeeding and never more than four entries in a cycle.
NextLate ==
    \/ Tick(LateSteps)
    \/ StartCycle("news_checker")
    \/ FetchReturn("news_checker", "late")
    \/ SendReturn("news_checker") /\ send_ok'
    \/ SleepReturn("news_checker")

SpecLate == InitNewsOnly /\ [][NextLate]_vars

\* The scheduled loop and the testnews command together, on a steady clock.
NextOverlap ==
    \/ \E p \in Pollers : StartCycle(p)
    \/ \E p \in Pollers : FetchReturn(p, "few")
    \/ \E p \in Pollers : SendReturn(p)
    \/ \E p \in Pollers : SleepReturn(p)

SpecOverlap == InitNewsOnly /\ [][NextOverlap]_vars

----------------------------------------------------------------------------
(* The /news command: actions *)

\* (a command that records the stories it showed in posted_stories)
QueryFrameMarking ==
    /\ posted_stories' = posted_stories \cup SentIds(news_query'.shown)
    /\ UNCHANGED <<now, news_channel_id, last_check, poll, cycles, send_ok, sends,
                   insertion_order, prev_cycle_sent, last_cycle, dropped,
                   monVars, probe, apiVars, loops, cogs, sys_query>>

\* What get_latest_news leaves alone: it assigns to its locals only.
QueryFrame ==
    UNCHANGED <<now, newsVars, monVars, probe, apiVars, loops, cogs, sys_query>>

\* The command is invoked with a count (line 145) and defers its response.
QueryStart ==
    /\ news_query.pc = "idle"
    /\ queries < MaxQueries
    /\ queries' = queries + 1
    /\ \E count \in QueryCounts :
         news_query' = [IdleQuery EXCEPT !.pc = "deferring", !.asked = count]
    /\ QueryFrame

\* interaction.response.defer() returns, and lines 149-156 clamp the count;
\* or it raises, which leaves the command.
QueryDeferred ==
    /\ news_query.pc = "deferring"
    /\ \E ok \in BOOLEAN :
         news_query' =
            IF ok THEN [news_query EXCEPT !.pc = "fetching",
                                          !.count = ClampCount(news_query.asked)]
            ELSE [news_query EXCEPT !.pc = "idle", !.outcome = "raised"]
    /\ UNCHANGED queries
    /\ QueryFrame

\* One fetch_rss_feed returns or raises (lines 156-158).  A fetch that raises
\* ends the command with the error message of lines 186-188; after the last
\* fetch the list is sorted and cut (lines 161-162), and the command ends
\* with "No stories found." or goes on to send its first embed.
QueryFetchReturn ==
    /\ news_query.pc = "fetching"
    /\ \E r \in QueryResults(news_query.feed_i) :
         LET q == news_query
             stories == q.stories \o Take(r.entries, q.count)
             cut == Take(SortStories(stories), q.count)
         IN  news_query' =
                IF ~r.ok THEN [q EXCEPT !.pc = "idle", !.outcome = "error"]
                ELSE IF q.feed_i < Len(news_rss_feeds)
                THEN [q EXCEPT !.feed_i = @ + 1, !.stories = stories]
                ELSE IF cut = <<>>
                THEN [q EXCEPT !.pc = "idle", !.stories = cut, !.outcome = "none found"]
                ELSE [q EXCEPT !.pc = "sending", !.stories = cut, !.idx = 1]
    /\ UNCHANGED queries
    /\ QueryFrame

\* interaction.followup.send(embed=embed) returns (lines 183-184) and the
\* loop goes on, or it raises and the command ends with the error message.
QuerySendReturn ==
    /\ news_query.pc = "sending"
    /\ \E ok \in BOOLEAN :
         LET q == news_query
             shown == Append(q.shown, q.stories[q.idx])
         IN  news_query' =
                IF ~ok THEN [q EXCEPT !.pc = "idle", !.outcome = "error"]
                ELSE IF q.idx < Len(q.stories)
                THEN [q EXCEPT !.idx = @ + 1, !.shown = shown]
                ELSE [q EXCEPT !.pc = "idle", !.shown = shown, !.outcome = "shown"]
    /\ UNCHANGED queries
    /\ QueryFrame

----------------------------------------------------------------------------
(* The resource monitor: actions *)

\* The clock jumps to a later instant.
TickMon ==
    /\ \E t \in MonTimes : t > now /\ now' = t
    /\ UNCHANGED <<newsVars, monVars, probe, cmdVars, apiVars, loops, cogs>>

\* check_system_health is entered (lines 47-93): it returns at once without a
\* status channel; otherwise it samples (a psutil call may raise, which
\* leaves the function: system_monitor catches it, lines 36-40), builds the
\* alerts and runs the sending loop to its first send_alert.
\* psutil.cpu_percent(interval=1) blocks for a second, so a sample is taken
\* later than the one before it; `now` is the clock when the sample is
\* complete.  env gives the percentages each resource may show.
MonStart(env) ==
    /\ mon.pc = "idle"
    /\ loops["system_monitor"] = "running"
    /\ mon_cycles < MaxMonCycles
    /\ mon_cycles' = mon_cycles + 1
    /\ \E found \in BOOLEAN, failed \in {"none", "CPU", "Memory", "Disk"} :
         IF status_channel_id = "unset" \/ ~found
         THEN UNCHANGED <<mon, loops, cogs>>
         ELSE IF failed # "none"
         THEN /\ \E cpu \in Percentages(env, "CPU"),
                    memory \in Percentages(env, "Memory") :
                   mon' = [IdleMon EXCEPT !.sampled_at = mon.sampled_at,
                                          !.fault = TRUE, !.prev_fault = mon.fault,
                                          !.failed = failed,
                                          !.samples = SampledBefore(failed, cpu, memory)]
              /\ loops' = [loops EXCEPT !["system_monitor"] = LoopAfterFault("system_monitor")]
              /\ UNCHANGED cogs
         ELSE /\ now > mon.sampled_at
              /\ \E cpu \in Percentages(env, "CPU"),
                    memory \in Percentages(env, "Memory"),
                    disk \in Percentages(env, "Disk") :
                   mon' = ScanAlerts([IdleMon EXCEPT
                                        !.sampled_at = now,
                                        !.prev_fault = mon.fault,
                                        !.alerts = BuildAlerts(Samples(cpu, memory, disk), 1)],
                                     last_alert_time)
              /\ UNCHANGED <<loops, cogs>>
    /\ alert_ok' = TRUE
    /\ UNCHANGED <<now, newsVars, status_channel_id, last_alert_time, last_done, probe, cmdVars, apiVars>>

\* send_alert returns (lines 114-118 swallow a failed send), line 94 records
\* the time, and the loop goes on to the next send_alert or to its end.
MonSendReturn ==
    /\ mon.pc = "sending"
    /\ \E ok \in BOOLEAN : alert_ok' = ok
    /\ LET alert == mon.alerts[mon.idx]
           table == Put(last_alert_time, alert_key(alert), now)
       IN  /\ last_alert_time' = table
           /\ last_done' = Put(last_done, <<alert.type, alert.severity>>, now)
           /\ mon' = ScanAlerts([mon EXCEPT !.idx = @ + 1], table)
    /\ UNCHANGED <<now, newsVars, status_channel_id, mon_cycles, probe, cmdVars, apiVars, loops, cogs>>

\* The channel.send of send_alert never returns: nothing ends the await.
MonSendHangs ==
    /\ mon.pc = "sending"
    /\ mon' = [mon EXCEPT !.pc = "hung"]
    /\ UNCHANGED <<now, newsVars, status_channel_id, last_alert_time, mon_cycles,
                   last_done, alert_ok, probe, cmdVars, apiVars, loops, cogs>>

\* Lines 61-85 on the probe sample.
Classify ==
    /\ ~probe.classified
    /\ probe' = [probe EXCEPT !.classified = TRUE,
                              !.alerts = BuildAlerts(probe.samples, 1)]
    /\ UNCHANGED <<now, newsVars, monVars, apiVars, loops, cogs, cmdVars>>

NextMon ==
    \/ TickMon
    \/ MonStart("any")
    \/ MonSendReturn

SpecMon == InitMonOnly /\ [][NextMon]_vars

SpecClassify == InitClassify /\ [][Classify]_vars

----------------------------------------------------------------------------
(* The two periodic tasks together, on a steady clock, with sends that may  *)
(* never return.                                                            *)

NewsTask ==
    \/ StartCycle("news_checker")
    \/ FetchReturn("news_checker", "few")
    \/ SendReturn("news_checker")
    \/ SleepReturn("news_checker")

MonitorTask ==
    \/ MonStart("few")
    \/ MonSendReturn

NextTasks ==
    \/ NewsTask
    \/ SendHangs("news_checker")
    \/ MonitorTask
    \/ MonSendHangs

InitTasks == Init /\ news_channel_id = "set" /\ status_channel_id = "set" /\ ApiQuiet

SpecTasks == InitTasks /\ [][NextTasks]_vars

----------------------------------------------------------------------------
(* The /status and /health commands: actions *)

\* (a command that records an alert time for the CPU figure it reports)
SysFrameRecording ==
    /\ last_alert_time' = Put(last_alert_time, <<"CPU", "critical">>, now)
    /\ UNCHANGED <<now, newsVars, status_channel_id, mon, mon_cycles, last_done,
                   alert_ok, probe, apiVars, loops, cogs, news_query>>

\* What get_system_status and health_check leave alone: they assign to their
\* locals only and do not mention self.last_alert_time.
SysFrame ==
    UNCHANGED <<now, newsVars, monVars, probe, apiVars, loops, cogs, news_query>>

\* /status or /health is invoked and defers its response.
SysQueryStart ==
    /\ sys_query.pc = "idle"
    /\ queries < MaxQueries
    /\ queries' = queries + 1
    /\ \E command \in SysCommands :
         sys_query' = [IdleSys EXCEPT !.pc = "deferring", !.command = command]
    /\ SysFrame

\* interaction.response.defer() returns (or raises, which leaves the
\* command); the three psutil calls sample the resources (env gives what
\* each may show) and the embed is built, up to followup.send.  A psutil
\* call that raises ends the command with its error message.
SysQueryDeferred(env) ==
    /\ sys_query.pc = "deferring"
    /\ \E ok \in BOOLEAN, sampled \in BOOLEAN :
         IF ~ok
         THEN sys_query' = [sys_query EXCEPT !.pc = "idle", !.at = now, !.outcome = "raised"]
         ELSE IF ~sampled
         THEN sys_query' = [sys_query EXCEPT !.pc = "idle", !.at = now, !.outcome = "error"]
         ELSE \E cpu \in Percentages(env, "CPU"),
                 memory \in Percentages(env, "Memory"),
                 disk \in Percentages(env, "Disk") :
                sys_query' = [sys_query EXCEPT !.pc = "sending",
                                               !.samples = Samples(cpu, memory, disk)]
    /\ UNCHANGED queries
    /\ SysFrame

\* interaction.followup.send(embed=embed) returns, or raises and the command
\* ends with its error message.
SysQuerySendReturn ==
    /\ sys_query.pc = "sending"
    /\ \E ok \in BOOLEAN :
         sys_query' = [sys_query EXCEPT !.pc = "idle", !.at = now,
                                        !.outcome = IF ok THEN "shown" ELSE "error"]
    /\ UNCHANGED queries
    /\ SysFrame

\* The system_monitor loop and the two commands together.
NextSysQuery ==
    \/ TickMon
    \/ MonitorTask
    \/ SysQueryStart
    \/ SysQueryDeferred("few")
    \/ SysQuerySendReturn

SpecSysQuery == InitMonOnly /\ [][NextSysQuery]_vars

----------------------------------------------------------------------------
(* The /news command beside the poller *)

\* The news_checker loop and the /news command together, on a steady clock.
NextQuery ==
    \/ NewsTask
    \/ QueryStart
    \/ QueryDeferred
    \/ QueryFetchReturn
    \/ QuerySendReturn

SpecQuery == InitNewsOnly /\ [][NextQuery]_vars

----------------------------------------------------------------------------
(* The ingress bridge: actions *)

\* (a news handler that records what was submitted in posted_stories)
BridgeFrameMarking ==
    /\ posted_stories' = posted_stories \cup {"submitted"}
    /\ UNCHANGED <<now, news_channel_id, last_check, poll, cycles, send_ok, sends,
                   insertion_order, prev_cycle_sent, last_cycle, dropped,
                   monVars, probe, loops, cogs, cmdVars>>

\* What the endpoints and the handlers of APIEventsCog leave alone: the cog
\* holds self.bot only, and the handlers assign to their locals.
BridgeFrame ==
    UNCHANGED <<now, newsVars, monVars, probe, loops, cogs, cmdVars>>

\* One of the three POST endpoints of server.py receives a request and runs
\* to its response or to the channel.send of its handler: verify_api_key
\* (401), the validation of the body against its model (422), the checks of
\* lines 80-86 (their HTTPException is raised inside the try block), the
\* handler of api_events.py.  env gives the requests that may come in.
Endpoint(w, endpoint, env) ==
    /\ w \in DOMAIN api => api[w].pc = "idle"
    /\ requests < MaxRequests
    /\ requests' = requests + 1
    /\ \E credentials \in ArrivalsOf(env, endpoint).credentials,
          valid \in ArrivalsOf(env, endpoint).valid,
          body \in ArrivalsOf(env, endpoint).body,
          found \in ArrivalsOf(env, endpoint).found :
         LET req == [IdleWorker EXCEPT !.endpoint = endpoint,
                                       !.credentials = credentials,
                                       !.valid = valid, !.body = body]
             handled == Handle(ChannelId(ChannelRole(endpoint)), found,
                               EmbedOf(endpoint, body))
         IN  api' = Put(api, w,
                 IF ~verify_api_key(credentials)
                 THEN [req EXCEPT !.response = 401]
                 ELSE IF ~valid
                 THEN [req EXCEPT !.response = 422]
                 ELSE IF BotNotReady(discord_bot) \/ ~api_cog
                 THEN [req EXCEPT !.unavailable = TRUE,
                                  !.response = ExceptException("HTTPException(503)")]
                 ELSE IF handled.outcome = "send"
                 THEN [req EXCEPT !.pc = "sending", !.dispatch = "send", !.found = TRUE,
                                  !.embed = handled.embed, !.calls = @ + 1]
                 ELSE [req EXCEPT !.dispatch = handled.outcome, !.response = 200])
    /\ UNCHANGED <<discord_bot, api_cog>>
    /\ BridgeFrame

report_status(w, env) == Endpoint(w, "/status", env)

report_event(w, env) == Endpoint(w, "/event", env)

submit_news(w, env) == Endpoint(w, "/news", env)

\* channel.send returns or raises in a handler; the handler returns and the
\* endpoint answers.
ApiSendReturn(w) ==
    /\ w \in DOMAIN api
    /\ api[w].pc = "sending"
    /\ \E ok \in BOOLEAN :
         api' = [api EXCEPT ![w].pc = "idle",
                            ![w].dispatch = IF ok THEN "delivered" ELSE "delivery_failed",
                            ![w].response = IF AfterSend(ok) = "raised"
                                            THEN ExceptException("Exception") ELSE 200]
    /\ UNCHANGED <<discord_bot, api_cog, requests>>
    /\ BridgeFrame

\* The bot becomes ready (NewsBot.on_ready), or loses its connection.
BotReadiness ==
    /\ discord_bot \in {"not_ready", "ready"}
    /\ discord_bot' = IF discord_bot = "ready" THEN "not_ready" ELSE "ready"
    /\ UNCHANGED <<now, newsVars, monVars, probe, cmdVars, api_cog, api, requests, loops, cogs>>

NextApi ==
    \/ \E w \in Workers : report_status(w, "any")
    \/ \E w \in Workers : report_event(w, "any")
    \/ \E w \in Workers : submit_news(w, "any")
    \/ \E w \in Workers : ApiSendReturn(w)
    \/ BotReadiness

InitApiOnly ==
    /\ now = StartTime
    /\ InitNews
    /\ InitMon
    /\ probe = [samples |-> Samples(0, 0, 0), classified |-> FALSE, alerts |-> <<>>]
    /\ InitApi
    /\ loops = [t \in Tasks |-> "running"]
    /\ cogs = [t \in Tasks |-> LoadedCog]
    /\ InitCommands

SpecApi == InitApiOnly /\ [][NextApi]_vars

\* The bridge beside the two periodic tasks, on a steady clock, each task
\* with its smallest environment and running at most BridgeCycles cycles.
NextBridge ==
    \/ cycles < BridgeCycles /\ StartCycle("news_checker")
    \/ FetchReturn("news_checker", "one")
    \/ SendReturn("news_checker")
    \/ SleepReturn("news_checker")
    \/ mon_cycles < BridgeCycles /\ MonStart("one")
    \/ MonSendReturn
    \/ \E w \in Workers : report_status(w, "few")
    \/ \E w \in Workers : report_event(w, "few")
    \/ \E w \in Workers : submit_news(w, "few")
    \/ \E w \in Workers : ApiSendReturn(w)

SpecBridge == InitTasks /\ [][NextBridge]_vars

----------------------------------------------------------------------------
(* The lifecycle of the two cogs that own a periodic task *)

\* Loop.is_running(): the loop has a task and the task is not done.
is_running(task) == loops[task] \in {"waiting", "running"}

\* (a cog_load that starts its loop whether or not it runs)
ShouldStartAlways(task) == TRUE

\* if not self.system_monitor.is_running() (self.news_checker in NewsCog)
ShouldStart(task) == ~is_running(task)

\* cog_load of MonitoringCog (system_monitor) and of NewsCog (news_checker).
\* Loop.start() raises RuntimeError when the loop has a task that is not
\* done; otherwise it creates the task, which awaits before_loop first.
cog_load(task) ==
    /\ cogs[task].loads < MaxLoads
    /\ IF ~ShouldStart(task)
       THEN /\ cogs' = [cogs EXCEPT ![task].loads = @ + 1]
            /\ UNCHANGED loops
       ELSE IF is_running(task)
       THEN /\ cogs' = [cogs EXCEPT ![task].loads = @ + 1, ![task].raised = TRUE]
            /\ UNCHANGED loops
       ELSE /\ cogs' = [cogs EXCEPT ![task].loads = @ + 1, ![task].live = @ + 1]
            /\ loops' = [loops EXCEPT ![task] = "waiting"]
    /\ UNCHANGED <<now, newsVars, monVars, probe, apiVars, cmdVars>>

\* cog_unload: if the loop runs, Loop.cancel() cancels its task; the
\* CancelledError ends the cycle in flight at its await (except Exception
\* does not catch it) and the loop.
cog_unload(task) ==
    /\ cogs[task].unloads < cogs[task].loads
    /\ IF is_running(task)
       THEN /\ cogs' = [cogs EXCEPT ![task].unloads = @ + 1, ![task].live = @ - 1]
            /\ loops' = [loops EXCEPT ![task] = "cancelled"]
            /\ poll' = IF task = "news_checker"
                       THEN [poll EXCEPT ![task].pc = "idle"] ELSE poll
            /\ mon' = IF task = "system_monitor"
                      THEN [mon EXCEPT !.pc = "idle"] ELSE mon
       ELSE /\ cogs' = [cogs EXCEPT ![task].unloads = @ + 1]
            /\ UNCHANGED <<loops, poll, mon>>
    /\ UNCHANGED <<now, news_channel_id, posted_stories, last_check, cycles, send_ok,
                   sends, insertion_order, prev_cycle_sent, last_cycle, dropped,
                   status_channel_id, last_alert_time, mon_cycles, last_done,
                   alert_ok, probe, apiVars, cmdVars>>

\* The connection to the chat platform is complete: is_ready() turns true
\* and wait_until_ready() returns in every task that awaits it.
on_ready ==
    /\ discord_bot = "not_ready"
    /\ discord_bot' = "ready"
    /\ UNCHANGED <<now, newsVars, monVars, probe, api_cog, api, requests, loops,
                   cogs, cmdVars>>

\* (a before_loop that does not wait for the bot)
BeforeLoopAtOnce == TRUE

\* await self.bot.wait_until_ready()
BeforeLoopDone == discord_bot = "ready"

\* before_system_monitor / before_news_checker returns and the loop goes on
\* to its cycles.
before_loop(task) ==
    /\ loops[task] = "waiting"
    /\ BeforeLoopDone
    /\ loops' = [loops EXCEPT ![task] = "running"]
    /\ UNCHANGED <<now, newsVars, monVars, probe, apiVars, cogs, cmdVars>>

NextLifecycle ==
    \/ \E task \in Tasks : cog_load(task)
    \/ \E task \in Tasks : cog_unload(task)
    \/ on_ready
    \/ \E task \in Tasks : before_loop(task)
    \/ cycles < BridgeCycles /\ StartCycle("news_checker")
    \/ FetchReturn("news_checker", "one")
    \/ SendReturn("news_checker")
    \/ SleepReturn("news_checker")
    \/ mon_cycles < BridgeCycles /\ MonStart("one")
    \/ MonSendReturn

\* The bot before setup_hook has loaded any cog and before it is ready.
InitLifecycle ==
    /\ now = StartTime
    /\ InitNews /\ news_channel_id = "set"
    /\ InitMon /\ status_channel_id = "set"
    /\ probe = [samples |-> Samples(0, 0, 0), classified |-> FALSE, alerts |-> <<>>]
    /\ discord_bot = "not_ready" /\ api_cog = TRUE /\ api = <<>> /\ requests = 0
    /\ loops = [t \in Tasks |-> "unloaded"]
    /\ cogs = [t \in Tasks |-> NoCog]
    /\ InitCommands

SpecLifecycle == InitLifecycle /\ [][NextLifecycle]_vars

----------------------------------------------------------------------------
(* Properties of the feed poller *)

Checker == poll["news_checker"]

NoRepeat(seq) == \A i, j \in 1..Len(seq) : i # j => story_id(seq[i]) # story_id(seq[j])

\* The entries of a cycle that were unseen and strictly newer than the cutoff
\* when its posting loop began.
Eligible(st) ==
    { s \in SeqToSet(st.new_stories) :
        /\ story_id(s) \notin st.seen0
        /\ s.has_published
        /\ s.published > st.cutoff0 }
EligibleIds(st) == { story_id(s) : s \in Eligible(st) }

\* The last cycle that fetched has ended (by returning or by raising).
CycleOver(st) ==
    /\ st.pc = "idle"
    /\ last_cycle.outcome \in {"completed", "raised"}

\* C1 (as claimed): an identifier fetched in two consecutive poll cycles is
\* sent at most once across the two cycles, and an identifier that is in
\* posted_stories when a cycle filters is never sent by that cycle.
C1_ConsecutiveCyclesSendOnce ==
    /\ SentIds(Checker.sent) \cap prev_cycle_sent = {}
    /\ NoRepeat(Checker.sent)
    /\ SentIds(Checker.sent) \cap Checker.seen0 = {}

\* C2 (as claimed): over any sequence of poll cycles, no feed-entry
\* identifier is sent to the sink more than once.
C2_AtMostOncePerLifetime == \A id \in AllStoryIds : sends[id] <= 1

\* C3 (as claimed): an identifier is inserted into posted_stories only if the
\* send of its entry succeeded.  (In pc = "sleeping" the identifier of the
\* story at idx has just been inserted; send_ok is the outcome of its send.)
C3_InsertOnlyOnSuccess == Checker.pc = "sleeping" => send_ok

\* C4: a cycle sends at most max_posts_per_check entries, all of them
\* eligible; when more identifiers are eligible than the cap, the cycle ends
\* having sent exactly cap of them, none older than an eligible one it left
\* out; the sent ones are in posted_stories and the eligible ones left out
\* are not (until the eviction at the end of the cycle cuts the set).
C4_CapEnforced ==
    LET st == Checker
        sent == SentIds(st.sent)
        elig == EligibleIds(st)
    IN  /\ Len(st.sent) <= max_posts_per_check
        /\ sent \subseteq elig
        /\ (CycleOver(st) /\ Cardinality(elig) > max_posts_per_check) =>
              /\ Cardinality(sent) = max_posts_per_check
              /\ \A s \in SeqToSet(st.sent) : \A e \in Eligible(st) :
                    story_id(e) \notin sent => s.published >= e.published
        /\ (st.pc = "sleeping" \/ (CycleOver(st) /\ ~last_cycle.evicted)) =>
              /\ sent \subseteq posted_stories
              /\ (elig \ sent) \cap posted_stories = {}

\* C4 witness: a cycle with 7 eligible identifiers has ended after 5 sends.
C4_Witness ==
    /\ CycleOver(Checker)
    /\ Cardinality(EligibleIds(Checker)) = 7
    /\ Len(Checker.sent) = 5
    /\ Cardinality(EligibleIds(Checker) \ posted_stories) = 2

\* C5: the stories of a cycle are sent in descending order of publication
\* timestamp, and in the sorted list every entry without a timestamp comes
\* after every entry that has one.
C5_DispatchOrder ==
    LET st == Checker
    IN  /\ \A i, j \in 1..Len(st.sent) :
              i < j => st.sent[i].published >= st.sent[j].published
        /\ st.pc # "fetching" =>
              \A i, j \in 1..Len(st.new_stories) :
                 (i < j /\ ~st.new_stories[i].has_published)
                     => ~st.new_stories[j].has_published

\* C5 witness: fetched in the order T-3, T-1, T-2, F1, undated; sent in the
\* order F1, T-1, T-2, T-3, with the undated entry last in the sorted list.
C5_Witness ==
    /\ Len(Checker.sent) = 4
    /\ Checker.sent[1].published = F1
    /\ Checker.sent[2].published = T1
    /\ Checker.sent[3].published = T2
    /\ Checker.sent[4].published = T3
    /\ Len(Checker.new_stories) = 5
    /\ ~Checker.new_stories[5].has_published

\* C6 (as claimed): every poll cycle that got as far as fetching ends with
\* last_check set to the time of its end.
C6_CutoffAdvanced ==
    last_cycle.outcome \in {"completed", "raised"} => last_check = last_cycle.end_time

\* C7 (as claimed): when posted_stories exceeds the threshold at the end of
\* a cycle it is cut to at most SeenKeep identifiers, exactly the SeenKeep
\* most recently inserted ones.
C7_EvictionKeepsMostRecent ==
    last_cycle.evicted =>
        /\ Cardinality(last_cycle.kept) <= SeenKeep
        /\ last_cycle.kept = last_cycle.recent

\* C22: an entry that a cycle left unsent at its cap, although it was unseen
\* and newer than the cutoff, and whose publication time is not newer than
\* the cutoff that cycle recorded at its end, is sent by no later cycle, and
\* its id is never in posted_stories.
C22_BacklogDropped ==
    /\ SentIds(Checker.sent) \cap dropped = {}
    /\ dropped \cap posted_stories = {}

\* C22 witness: the first cycle sent five of seven eligible entries and left
\* id3 and id1 behind; a later cycle fetched id3 again, still unseen, and
\* completed without sending it.
C22_Witness ==
    /\ dropped = {"id1", "id3"}
    /\ Checker.pc = "idle" /\ last_cycle.outcome = "completed"
    /\ Checker.cutoff0 >= StartTime
    /\ Story("id3", T2) \in SeqToSet(Checker.new_stories)
    /\ "id3" \notin Checker.seen0
    /\ "id3" \notin SentIds(Checker.sent)

\* C29 (as claimed): a poll cycle that has finished fetching has issued one
\* fetch per configured source, the configured sources being the
\* comma-separated, trimmed, non-empty entries of settings.news_rss_feeds.
C29_OneFetchPerSource ==
    Checker.pc \notin {"idle", "fetching"} =>
        Len(Checker.fetched) = Len(get_news_feeds_list(news_rss_feeds))

\* C30 (as claimed): a cycle whose loop stopped at an unseen entry without a
\* publication time has dropped it unsent and completed, with the cutoff
\* advanced to the time of its end.
C30_UndatedTolerated ==
    \A i \in 1..Len(Checker.new_stories) :
        ( /\ Checker.pc = "idle" /\ Checker.idx = i
          /\ ~Checker.new_stories[i].has_published
          /\ story_id(Checker.new_stories[i]) \notin posted_stories )
        => /\ story_id(Checker.new_stories[i]) \notin SentIds(Checker.sent)
           /\ last_cycle.outcome = "completed"
           /\ last_check = last_cycle.end_time

\* C31 (as claimed): with every fetch and every send succeeding and fewer
\* than five entries per cycle, when a cycle has completed every entry it
\* fetched that was published after the initial cutoff has been sent, once.
C31_NoLossWithoutBurst ==
    (Checker.pc = "idle" /\ last_cycle.outcome = "completed") =>
        \A i \in 1..Len(Checker.new_stories) :
            Checker.new_stories[i].published > StartTime - Hour =>
                /\ story_id(Checker.new_stories[i]) \in posted_stories
                /\ sends[story_id(Checker.new_stories[i])] = 1

\* C32 (as claimed): posted_stories holds at most SeenHighWater identifiers
\* whenever no cycle is in flight, and never more than SeenHighWater plus the
\* per-cycle cap.
C32_SeenBounded ==
    /\ Checker.pc = "idle" => Cardinality(posted_stories) <= SeenHighWater
    /\ Cardinality(posted_stories) <= SeenHighWater + max_posts_per_check

C24_QueryReadOnly ==
    [][news_query' # news_query => UNCHANGED <<posted_stories, last_check>>]_vars

\* C24 witness: the command has shown id4 and ended, and a poll cycle is
\* sending that same entry, which is still not in posted_stories.
C24_Witness ==
    /\ news_query.pc = "idle" /\ news_query.outcome = "shown"
    /\ "id4" \in SentIds(news_query.shown)
    /\ Checker.pc = "sending"
    /\ story_id(Checker.new_stories[Checker.idx]) = "id4"
    /\ "id4" \notin posted_stories

\* The count of line 145 brought into 1..10.
Clamped(count) ==
    IF count < 1 THEN 1 ELSE IF count > 10 THEN 10 ELSE count

\* C25: the /news command shows at most min(max(count, 1), 10) stories, in
\* descending order of publication timestamp; when its fetches succeeded,
\* the list it shows from has exactly that many entries if that many were
\* fetched (a count above 10 gives 10, a count below 1 gives 1).
C25_CountClamp ==
    LET q == news_query
    IN  /\ Len(q.shown) <= Clamped(q.asked)
        /\ \A i, j \in 1..Len(q.shown) :
              i < j => SortKey(q.shown[i]) >= SortKey(q.shown[j])
        /\ q.pc = "sending" =>
              /\ Len(q.stories) <= Clamped(q.asked)
              /\ q.idx = Len(q.shown) + 1
              /\ \A i \in 1..Len(q.shown) : q.shown[i] = q.stories[i]
        /\ q.outcome = "shown" =>
              /\ q.shown = q.stories
              /\ Len(q.stories) \in {Clamped(q.asked), Len(LongContent[1]),
                                      Len(LongContent[2])}

\* C25 witness: asked for 11 stories with twelve fetched, the command has
\* shown ten; the first is dated F2 and the last T3.
C25_Witness ==
    /\ news_query.asked = 11 /\ news_query.outcome = "shown"
    /\ Len(news_query.shown) = 10
    /\ news_query.shown[1].published = F2
    /\ news_query.shown[10].published = T3

\* C16 (as claimed): at no time are two executions of fetch_and_post_news in
\* flight, whichever entry point started them, and likewise for
\* check_system_health (which has one caller, the system_monitor loop).
C16_NonReentrant ==
    Cardinality({ p \in Pollers : poll[p].pc # "idle" }) <= 1

\* C17: a poll cycle or monitor cycle that raised was caught by its task
\* loop: the loop is still running and, below MaxCycles (MaxMonCycles), its
\* next cycle can start.
C17_FaultCaught ==
    /\ last_cycle.outcome = "raised" =>
          /\ loops["news_checker"] = "running"
          /\ (Checker.pc = "idle" /\ cycles < MaxCycles)
                => ENABLED StartCycle("news_checker")
    /\ (mon.fault \/ mon.prev_fault) =>
          /\ loops["system_monitor"] = "running"
          /\ (mon.pc = "idle" /\ mon_cycles < MaxMonCycles)
                => ENABLED MonStart("few")

\* C17 witness: a poll cycle is fetching after the cycle before it raised,
\* and a monitor cycle is sending after the cycle before it raised.
C17_Witness ==
    /\ last_cycle.outcome = "raised" /\ Checker.pc = "fetching"
    /\ mon.prev_fault /\ mon.pc = "sending"

\* C18 (as claimed): a send that never returns is ended (by a per-send
\* timeout), so a task that waits in such a send can always take a further
\* step and go on to its later cycles.
C18_HungSendEnds ==
    /\ Checker.pc = "hung" => ENABLED NewsTask
    /\ mon.pc = "hung" => ENABLED MonitorTask

\* What the fetches of a cycle returned, and whether all of them are done.
FetchedStories(st) ==
    UNION { SeqToSet(st.fetched[i].entries) :
              i \in { j \in 1..Len(st.fetched) : st.fetched[j].ok } }
FetchFailed(st) == { i \in 1..Len(st.fetched) : ~st.fetched[i].ok }
FetchDone(st) == Len(st.fetched) = Len(news_rss_feeds) /\ st.pc # "fetching"

\* C20: whichever fetches of a cycle failed, the list the cycle goes on with
\* holds exactly the entries of the fetches that succeeded, and a cycle that
\* completes below the cap has sent every eligible one of them.
C20_PartialFailure ==
    LET st == Checker
    IN  /\ FetchDone(st) => SeqToSet(st.new_stories) = FetchedStories(st)
        /\ (FetchDone(st) /\ st.pc = "idle" /\ last_cycle.outcome = "completed"
              /\ Len(st.sent) < max_posts_per_check)
                => EligibleIds(st) \subseteq SentIds(st.sent)

\* C20 witness: the fetch of the first source failed, the second returned
\* entries, and the cycle has completed having sent one of them.
C20_Witness ==
    /\ FetchDone(Checker) /\ FetchFailed(Checker) = {1}
    /\ Checker.pc = "idle" /\ last_cycle.outcome = "completed"
    /\ "id5" \in SentIds(Checker.sent)

----------------------------------------------------------------------------
(* Properties of the ingress bridge *)

\* The requests that have been received and not yet replaced by another.
Received == DOMAIN api
Admitted == { w \in Received : verify_api_key(api[w].credentials) /\ api[w].valid }
Answered == { w \in Received : api[w].response # 0 }

\* C12: a request whose bearer credential differs from the configured secret
\* is answered 401 at once; no handler runs for it and it makes no
\* channel.send call.
C12_Unauthorized ==
    \A w \in Received :
        api[w].credentials # api_secret_key =>
            /\ api[w].response = 401
            /\ api[w].pc = "idle"
            /\ api[w].dispatch = "none"
            /\ api[w].calls = 0
            /\ api[w].embed = NoEmbed

\* C12 witness: a schema-valid request with a wrong credential, received
\* while the bot is ready, the cog loaded and both channels configured, has
\* been answered 401.
C12_Witness ==
    /\ discord_bot = "ready" /\ api_cog
    /\ status_channel_id = "set" /\ news_channel_id = "set"
    /\ \E w \in Received :
         /\ api[w].credentials = "Change_me" /\ api[w].valid
         /\ api[w].response = 401

\* C13 (as claimed): an admitted request that finds the sink absent or not
\* ready, or the routing cog not loaded, is answered 503 and sends nothing.
C13_Unavailable503 ==
    \A w \in Admitted :
        api[w].unavailable => (api[w].response = 503 /\ api[w].calls = 0)

\* C14: an admitted POST /event that finds the sink ready, the cog loaded and
\* the status channel configured and resolvable makes exactly one
\* channel.send call, whose embed has the request's title as title and the
\* request's severity (upper-cased) as the value of its Severity field, and
\* is answered 200.
C14_EventEndToEnd ==
    \A w \in Admitted :
        (api[w].endpoint = "/event" /\ ~api[w].unavailable
            /\ status_channel_id = "set" /\ api[w].found) =>
            /\ api[w].calls = 1
            /\ api[w].embed.channel = "status"
            /\ api[w].embed.title = api[w].body.title
            /\ api[w].embed.tag = Upper(api[w].body.severity)
            /\ Lower(api[w].embed.tag) = Lower(api[w].body.severity)
            /\ api[w].response \in {0, 200}
            /\ (api[w].pc = "idle" => api[w].response = 200)

\* C14 witness: the event "Deploy finished" of severity "info" has been
\* delivered and answered 200.
C14_Witness ==
    \E w \in Admitted :
        /\ api[w].endpoint = "/event"
        /\ api[w].body = EventReport(Text("Deploy finished", 15), NoText, "info")
        /\ api[w].dispatch = "delivered"
        /\ api[w].response = 200
        /\ api[w].embed.title = Text("Deploy finished", 15)
        /\ api[w].embed.tag = "INFO"

\* C15: an admitted request whose handler ran is answered 200 however the
\* dispatch ended: delivered, channel not configured, channel not found, or
\* send failed.
C15_FireAndForget ==
    \A w \in Admitted \cap Answered :
        api[w].dispatch \in {"delivered", "unconfigured", "not_found", "delivery_failed"}
            => api[w].response = 200

\* C15 witness: one request whose send failed and one whose channel was not
\* found have both been answered 200.
C15_Witness ==
    \E w1, w2 \in Admitted :
        /\ api[w1].dispatch = "delivery_failed" /\ api[w1].response = 200
        /\ api[w2].dispatch = "not_found" /\ api[w2].response = 200

\* The channel setting of the role an endpoint reports to.
RoleChannel(endpoint) ==
    IF endpoint = "/news" THEN news_channel_id ELSE status_channel_id

\* C23: a handler that finds the channel of its role not configured, or
\* configured but not resolvable, makes no channel.send call and returns
\* normally (the endpoint answers 200, not 500); a handler whose one
\* channel.send failed returns normally too.
C23_NoOpOutcomes ==
    \A w \in Admitted :
        ~api[w].unavailable =>
            /\ RoleChannel(api[w].endpoint) = "unset" =>
                  /\ api[w].pc = "idle" /\ api[w].dispatch = "unconfigured"
                  /\ api[w].calls = 0 /\ api[w].embed = NoEmbed
                  /\ api[w].response = 200
            /\ api[w].dispatch = "not_found" =>
                  /\ RoleChannel(api[w].endpoint) = "set" /\ ~api[w].found
                  /\ api[w].calls = 0 /\ api[w].embed = NoEmbed
                  /\ api[w].response = 200
            /\ api[w].dispatch = "delivery_failed" =>
                  /\ api[w].calls = 1 /\ api[w].response = 200

\* C23 witness: with the status channel not configured and the news channel
\* configured, a status report was a no-op, and a news submission whose send
\* failed returned normally.
C23_Witness ==
    \E w1, w2 \in Admitted :
        /\ api[w1].endpoint = "/status" /\ api[w1].dispatch = "unconfigured"
        /\ api[w1].calls = 0 /\ api[w1].response = 200
        /\ api[w2].endpoint = "/news" /\ api[w2].dispatch = "delivery_failed"
        /\ api[w2].response = 200

\* C27: no step of the bridge (a request received, accepted or rejected, or
\* a handler's channel.send returning) changes posted_stories, last_check
\* or last_alert_time, nor the poll cycle or monitor cycle in flight.
C27_BridgeIsolation ==
    [][api' # api =>
          UNCHANGED <<posted_stories, last_check, last_alert_time, poll, mon>>]_vars

\* C27 witness: while a poll cycle is between two sends and the cooldown
\* table holds an alert time, one request is in its channel.send and another
\* has been rejected with 401; the poller's and the monitor's state are what
\* the two tasks made them.
C27_Witness ==
    /\ Checker.pc = "sleeping" /\ posted_stories = {"id2"}
    /\ DOMAIN last_alert_time = {<<"CPU", "critical">>}
    /\ Received = Workers
    /\ \E w1, w2 \in Received :
         /\ api[w1].pc = "sending" /\ api[w1].endpoint = "/news"
         /\ api[w2].response = 401 /\ api[w2].endpoint = "/status"

\* C28: whatever was handed to channel.send for a status report or an event
\* report went to the channel of the status role, and for a news submission
\* to the channel of the news role, that role being configured; a report
\* whose role is not configured made no channel.send call, whether or not the
\* other role is configured.
C28_ChannelRouting ==
    \A w \in DOMAIN api :
        /\ api[w].calls > 0 =>
              /\ api[w].embed # NoEmbed
              /\ api[w].embed.channel =
                    (IF api[w].endpoint \in {"/status", "/event"} THEN "status" ELSE "news")
              /\ RoleChannel(api[w].endpoint) = "set"
        /\ RoleChannel(api[w].endpoint) = "unset" => api[w].calls = 0

\* C28 witness: with the status role configured and the news role not, an
\* event report was delivered to the status channel and a news submission
\* sent nothing.
C28_Witness ==
    /\ status_channel_id = "set" /\ news_channel_id = "unset"
    /\ \E w1, w2 \in Admitted :
         /\ api[w1].endpoint = "/event" /\ api[w1].dispatch = "delivered"
         /\ api[w1].calls = 1 /\ api[w1].embed.channel = "status"
         /\ api[w2].endpoint = "/news" /\ api[w2].dispatch = "unconfigured"
         /\ api[w2].calls = 0

\* C19 (as claimed): every embed handed to channel.send has a title of at
\* most TitleLimit (256) code points and a description of at most
\* DescriptionLimit (4096).
C19_RenderingLimits ==
    \A w \in Received :
        api[w].calls > 0 =>
            /\ api[w].embed.title.len <= TitleLimit
            /\ api[w].embed.description.len <= DescriptionLimit

----------------------------------------------------------------------------
(* Properties of the resource monitor *)

Decided == { mon.decided[i] : i \in 1..Len(mon.decided) }

\* C8: an alert is sent when no alert of its (type, severity) was sent
\* before, or when more than alert_cooldown (300) seconds have passed since
\* the last send for its (type, severity) returned; otherwise (60 s after,
\* 300 s after) it is suppressed.  So two sends for one key are more than
\* 300 s apart.
C8_Cooldown ==
    /\ \A d \in Decided : d.sent <=> (d.elapsed = -1 \/ d.elapsed > alert_cooldown)
    /\ mon.pc = "sending" =>
          LET a == mon.alerts[mon.idx]
          IN  <<a.type, a.severity>> \in DOMAIN last_done =>
                 mon.started - last_done[<<a.type, a.severity>>] > alert_cooldown

\* C8 witness: in one cycle an alert whose key was last sent 301 s ago is
\* sent and one whose key was last sent 60 s ago is suppressed.
C8_Witness ==
    /\ \E d \in Decided : d.sent /\ d.elapsed = 301
    /\ \E d \in Decided : ~d.sent /\ d.elapsed = 60

\* C9: an alert is suppressed only while the cooldown of its own
\* (type, severity) runs; a running cooldown of the other severity of its
\* type never suppresses it.
C9_IndependentSeverities ==
    \A d \in Decided :
        /\ ~d.sent => (d.elapsed >= 0 /\ d.elapsed <= alert_cooldown)
        /\ (d.other >= 0 /\ d.other <= alert_cooldown /\ d.elapsed = -1) => d.sent

\* C9 witness: a critical Memory alert is sent 60 s after a warning Memory
\* alert was sent, while the warning's cooldown runs.
C9_Witness ==
    \E d \in Decided :
        /\ d.type = "Memory" /\ d.severity = "critical" /\ d.sent
        /\ d.elapsed = -1 /\ d.other = 60

\* C21 (as claimed): when the sampling of one resource fails in a monitor
\* cycle, the resources that were sampled are still evaluated: each of them
\* that is above its warning threshold has its alert handled (sent, or
\* suppressed by its cooldown) in that cycle.
C21_OnlyFailedExcluded ==
    (mon.fault /\ mon.pc = "idle") =>
        \A type \in {"CPU", "Memory", "Disk"} \ {mon.failed} :
            (mon.samples[type] # NotSampled /\ Triggered(type, mon.samples[type]))
                => \E d \in Decided : d.type = type

\* C26: no step of /status or /health changes last_alert_time or the
\* monitor cycle in flight, and with the commands running beside the monitor
\* every alert is still sent exactly when its own (type, severity) was never
\* sent or was last sent more than alert_cooldown seconds before.
C26_SysQueryLeavesCooldown ==
    /\ [][sys_query' # sys_query => UNCHANGED <<last_alert_time, mon>>]_vars
    /\ [](\A d \in Decided : d.sent <=> (d.elapsed = -1 \/ d.elapsed > alert_cooldown))

\* C26 witness: /health reported a critical CPU figure one second after the
\* critical CPU alert was sent; 300 s after the alert a monitor cycle
\* suppresses the alert again, and the table holds the time of the send.
C26_Witness ==
    /\ sys_query.command = "health" /\ sys_query.outcome = "shown"
    /\ sys_query.samples["CPU"] = CriticalThreshold("CPU")
    /\ sys_query.at = StartTime + 1
    /\ LastAlert(last_alert_time, <<"CPU", "critical">>) = StartTime + 1
    /\ mon.sampled_at = StartTime + 301
    /\ \E d \in Decided : d.type = "CPU" /\ ~d.sent /\ d.elapsed = 300

\* C11 (as claimed): AlertCooldownTable (last_alert_time) is written only
\* when the send_alert that has just returned delivered its alert; after a
\* failed send the table is left as it was.
C11_RecordOnlyOnSuccess ==
    [][last_alert_time' # last_alert_time => alert_ok']_vars

Classified(type) ==
    { probe.alerts[i].severity :
        i \in { j \in 1..Len(probe.alerts) : probe.alerts[j].type = type } }

\* C10 (as claimed): a sample yields "critical" exactly when value > critical
\* threshold, "warning" exactly when warning threshold < value <= critical
\* threshold, and no alert when value <= warning threshold.
C10_ClassificationAsClaimed ==
    probe.classified =>
        \A type \in {"CPU", "Memory", "Disk"} :
            LET v == probe.samples[type]
            IN  /\ ("critical" \in Classified(type)) <=> v > CriticalThreshold(type)
                /\ ("warning" \in Classified(type)) <=>
                      (v > WarningThreshold(type) /\ v <= CriticalThreshold(type))
                /\ (Classified(type) = {}) <=> v <= WarningThreshold(type)

\* C10 (amended): a sample yields "critical" exactly when value >= critical
\* threshold, "warning" exactly when warning threshold < value < critical
\* threshold, and no alert when value <= warning threshold.
C10_Classification ==
    probe.classified =>
        \A type \in {"CPU", "Memory", "Disk"} :
            LET v == probe.samples[type]
            IN  /\ ("critical" \in Classified(type)) <=> v >= CriticalThreshold(type)
                /\ ("warning" \in Classified(type)) <=>
                      (v > WarningThreshold(type) /\ v < CriticalThreshold(type))
                /\ (Classified(type) = {}) <=> v <= WarningThreshold(type)

\* C10 witness: CPU at 90 % is critical, memory at 94 % a warning, disk at
\* 85 % no alert.
C10_Witness ==
    /\ probe.classified
    /\ probe.samples = Samples(90, 94, 85)
    /\ probe.alerts = << [type |-> "CPU", severity |-> "critical"],
                         [type |-> "Memory", severity |-> "warning"] >>

=============================================================================
